---------------------------- MODULE Spec2Model ----------------------------
(***************************************************************************)
(* The guest-corpus lexical retrieval tool of alfred-agentic-rag, in its  *)
(* two variants: smolagents_rag.py (class GuestInfoRetrieverTool) and     *)
(* llama_index_rag.py (function get_guest_info_retirever).                *)
(*                                                                         *)
(* A Python string is a sequence of atoms: an atom is one whitespace      *)
(* character (" " or "\n") or a maximal run of non-whitespace characters  *)
(* (a word).  Concatenation merges the two words that meet at the seam,   *)
(* so a missing separator is visible in the text and in its tokens.       *)
(*                                                                         *)
(* BM25Retriever is the third-party class both variants instantiate.  Its *)
(* retrieval is modelled by the algorithm of the library call made at the *)
(* mapped source line (score every document, argsort, reverse, keep the   *)
(* first k); the BM25 weight of a term is taken as 1, so a score is the   *)
(* number of occurrences of query terms in the document and is zero       *)
(* exactly when no query term occurs in it.  Both variants are given the  *)
(* whitespace tokenizer of the smolagents variant.                         *)
(***************************************************************************)
EXTENDS Naturals, Sequences, FiniteSets

VARIABLES variant, guest_dataset, docs, pc, is_initialized, retriever, call

vars == <<variant, guest_dataset, docs, pc, is_initialized, retriever, call>>

----------------------------------------------------------------------------
(* Bounds and inputs *)

MaxRecords == 4

Variants == {"smolagents", "llama_index"}

Callers == {"c1", "c2"}

SP == " "

NL == "\n"

Guests ==
    { [name |-> <<"ada", SP, "lovelace">>, relation |-> <<"friend">>,
       description |-> <<"gala", SP, "guest">>, email |-> <<"ada@x">>],
      [name |-> <<"marie", SP, "curie">>, relation |-> <<"gala">>,
       description |-> <<"gala", SP, "host">>, email |-> <<"marie@x">>],
      [name |-> <<"bob">>, relation |-> <<"cousin">>,
       description |-> <<"old", SP, "friend">>, email |-> <<>>] }

Queries ==
    { <<"gala">>, <<"friend">>, <<"nikola", SP, "tesla">>, <<>> }

BoundedSeq(S, n) == UNION { [1..m -> S] : m \in 0..n }

----------------------------------------------------------------------------
(* Python strings *)

IsWord(a) == a \notin {SP, NL}

\* s + t
Cat(s, t) ==
    IF s = <<>> THEN t
    ELSE IF t = <<>> THEN s
    ELSE IF IsWord(s[Len(s)]) /\ IsWord(t[1])
         THEN SubSeq(s, 1, Len(s) - 1) \o <<s[Len(s)] \o t[1]>> \o Tail(t)
         ELSE s \o t

\* sep.join(parts)
RECURSIVE Join(_, _)
Join(sep, parts) ==
    IF parts = <<>> THEN <<>>
    ELSE IF Len(parts) = 1 THEN parts[1]
    ELSE Cat(Cat(parts[1], sep), Join(sep, Tail(parts)))

\* s.split(): the words of s
Split(s) == SelectSeq(s, IsWord)

Min(a, b) == IF a <= b THEN a ELSE b

----------------------------------------------------------------------------
(* Corpus construction *)

\* smolagents_rag.py: "Description: ..." and "Email: ..." are adjacent string
\* literals with no comma between them, so Python concatenates them into one
\* list element before the join.
SmolPageContent(guest) ==
    Join(<<NL>>,
         << Cat(<<"Name:", SP>>, guest.name),
            Cat(<<"Relation:", SP>>, guest.relation),
            Cat(Cat(<<"Description:", SP>>, guest.description),
                Cat(<<"Email:", SP>>, guest.email)) >>)

SmolDocs(dataset) ==
    [i \in 1..Len(dataset) |->
        [page_content |-> SmolPageContent(dataset[i]),
         metadata |-> [name |-> dataset[i].name]]]

LlamaText(guest) ==
    Join(<<NL>>,
         << Cat(<<"Name:", SP>>, guest.name),
            Cat(<<"Relation:", SP>>, guest.relation),
            Cat(<<"Description:", SP>>, guest.description),
            Cat(<<"Email:", SP>>, guest.email) >>)

\* A faulty builder: the comprehension starts at range(1, ...) and loses the
\* first record.
LlamaDocsSkipFirst(dataset) ==
    [i \in 1..(Len(dataset) - 1) |->
        [text |-> LlamaText(dataset[i + 1]),
         metadata |-> [name |-> dataset[i + 1].name]]]

LlamaDocs(dataset) ==
    [i \in 1..Len(dataset) |->
        [text |-> LlamaText(dataset[i]),
         metadata |-> [name |-> dataset[i].name]]]

----------------------------------------------------------------------------
(* The BM25 retriever both variants instantiate *)

\* langchain_community BM25Retriever.k, the default kept by from_documents(docs)
BM25_K == 4

\* llama_index similarity_top_k, the default kept by from_defaults(nodes=docs)
SIMILARITY_TOP_K == 2

\* Index construction: every text is tokenized once; the documents are kept.
BuildIndex(documents, texts, k) ==
    [docs |-> documents,
     corpus |-> [i \in 1..Len(texts) |-> Split(texts[i])],
     k |-> k]

\* get_scores(query): one score per document of the index
Score(qtokens, dtokens) ==
    Cardinality({ p \in (1..Len(qtokens)) \X (1..Len(dtokens)) :
                    qtokens[p[1]] = dtokens[p[2]] })

GetScores(index, query) ==
    [i \in 1..Len(index.corpus) |-> Score(Split(query), index.corpus[i])]

\* argsort(scores)[::-1]: descending score; the ascending sort keeps equal
\* scores in index order, and the reversal puts the later document first.
Before(scores, j, i) ==
    \/ scores[j] > scores[i]
    \/ scores[j] = scores[i] /\ j > i

ArgsortReversed(scores) ==
    [p \in 1..Len(scores) |->
        CHOOSE i \in 1..Len(scores) :
            Cardinality({ j \in 1..Len(scores) : Before(scores, j, i) }) = p - 1]

\* get_top_n(query, documents, n): the n best documents, whatever their score
GetTopN(index, query) ==
    LET order == ArgsortReversed(GetScores(index, query))
    IN  [p \in 1..Min(index.k, Len(order)) |-> index.docs[order[p]]]

----------------------------------------------------------------------------
(* The tool's result *)

Sentinel == <<"No", SP, "relevant", SP, "documents", SP, "found">>

\* results[:3] of forward
TopN == 3

PageContents(results) == [i \in 1..Len(results) |-> results[i].page_content]

Texts(results) == [i \in 1..Len(results) |-> results[i].text]

\* A faulty forward: the slice results[:3] is left out.
ForwardResultNoSlice(results) ==
    IF results # <<>>
    THEN Join(<<NL, NL>>, PageContents(results))
    ELSE Sentinel

\* GuestInfoRetrieverTool.forward, from the retriever's results on
ForwardResult(results) ==
    IF results # <<>>
    THEN Join(<<NL, NL>>, PageContents(SubSeq(results, 1, Min(TopN, Len(results)))))
    ELSE Sentinel

\* get_guest_info_retirever, from the retriever's results on
LlamaResult(results) ==
    IF results # <<>>
    THEN Join(<<NL, NL>>, Texts(results))
    ELSE Sentinel

----------------------------------------------------------------------------
(* State machine *)

Idle == [pc |-> "idle", query |-> <<>>, results |-> <<>>, out |-> <<>>]

Init ==
    /\ variant \in Variants
    /\ guest_dataset \in BoundedSeq(Guests, MaxRecords)
    /\ docs = <<>>
    /\ pc = "docs"
    /\ is_initialized = <<>>
    /\ retriever = <<>>
    /\ call = [c \in Callers |-> Idle]

\* smolagents_rag.py: docs = [Document(...) for guest in guest_dataset]
SmolBuildDocs ==
    /\ pc = "docs"
    /\ variant = "smolagents"
    /\ docs' = SmolDocs(guest_dataset)
    /\ pc' = "tool"
    /\ UNCHANGED <<variant, guest_dataset, is_initialized, retriever, call>>

\* llama_index_rag.py: docs = [Document(...) for i in range(len(guest_dataset))]
LlamaBuildDocs ==
    /\ pc = "docs"
    /\ variant = "llama_index"
    /\ docs' = LlamaDocs(guest_dataset)
    /\ pc' = "tool"
    /\ UNCHANGED <<variant, guest_dataset, is_initialized, retriever, call>>

\* guest_info_tool = GuestInfoRetrieverTool(docs).  from_documents unpacks
\* zip(*((d.page_content, d.metadata) for d in documents)) into two names and
\* BM25Okapi divides by the corpus size: over no documents the constructor
\* raises, the module stops at this line and no tool object exists.
SmolToolInit ==
    /\ pc = "tool"
    /\ variant = "smolagents"
    /\ \/ /\ docs # <<>>
          /\ is_initialized' = <<FALSE>>
          /\ retriever' = <<BuildIndex(docs, PageContents(docs), BM25_K)>>
          /\ pc' = "run"
       \/ /\ docs = <<>>
          /\ pc' = "raised"
          /\ UNCHANGED <<is_initialized, retriever>>
    /\ UNCHANGED <<variant, guest_dataset, docs, call>>

\* bm25_retirever = BM25Retriever.from_defaults(nodes=docs).  Over no nodes the
\* library either builds an index that is empty or raises, by its version.
LlamaFromDefaults ==
    /\ pc = "tool"
    /\ variant = "llama_index"
    /\ \/ /\ retriever' = <<BuildIndex(docs, Texts(docs), SIMILARITY_TOP_K)>>
          /\ pc' = "run"
       \/ /\ docs = <<>>
          /\ pc' = "raised"
          /\ UNCHANGED retriever
    /\ UNCHANGED <<variant, guest_dataset, docs, is_initialized, call>>

Reverse(seq) == [i \in 1..Len(seq) |-> seq[Len(seq) + 1 - i]]

\* A faulty forward: the retrieval reorders the index's documents in place.
ForwardInvokeReorder(c) ==
    /\ pc = "run"
    /\ variant = "smolagents"
    /\ call[c].pc = "idle"
    /\ \E query \in Queries :
         call' = [call EXCEPT ![c] =
                    [pc |-> "invoked", query |-> query,
                     results |-> GetTopN(retriever[1], query), out |-> <<>>]]
    /\ retriever' = <<[retriever[1] EXCEPT !.docs = Reverse(@),
                                           !.corpus = Reverse(@)]>>
    /\ UNCHANGED <<variant, guest_dataset, docs, pc, is_initialized>>

\* forward: results = self.retriever.invoke(query)
ForwardInvoke(c) ==
    /\ pc = "run"
    /\ variant = "smolagents"
    /\ call[c].pc = "idle"
    /\ \E query \in Queries :
         call' = [call EXCEPT ![c] =
                    [pc |-> "invoked", query |-> query,
                     results |-> GetTopN(retriever[1], query), out |-> <<>>]]
    /\ UNCHANGED <<variant, guest_dataset, docs, pc, is_initialized, retriever>>

\* A faulty forward: the retriever is rebuilt over the documents just returned.
ForwardReturnReindex(c) ==
    /\ variant = "smolagents"
    /\ call[c].pc = "invoked"
    /\ call' = [call EXCEPT ![c].pc = "returned",
                            ![c].out = ForwardResult(call[c].results)]
    /\ retriever' = <<BuildIndex(call[c].results,
                                 PageContents(call[c].results), BM25_K)>>
    /\ UNCHANGED <<variant, guest_dataset, docs, pc, is_initialized>>

\* forward: the if/else on results and the return
ForwardReturn(c) ==
    /\ variant = "smolagents"
    /\ call[c].pc = "invoked"
    /\ call' = [call EXCEPT ![c].pc = "returned",
                            ![c].out = ForwardResult(call[c].results)]
    /\ UNCHANGED <<variant, guest_dataset, docs, pc, is_initialized, retriever>>

\* get_guest_info_retirever: results = bm25_retirever.retrieve(query)
LlamaRetrieve(c) ==
    /\ pc = "run"
    /\ variant = "llama_index"
    /\ call[c].pc = "idle"
    /\ \E query \in Queries :
         call' = [call EXCEPT ![c] =
                    [pc |-> "invoked", query |-> query,
                     results |-> GetTopN(retriever[1], query), out |-> <<>>]]
    /\ UNCHANGED <<variant, guest_dataset, docs, pc, is_initialized, retriever>>

\* get_guest_info_retirever: the if/else on results and the return
LlamaReturn(c) ==
    /\ variant = "llama_index"
    /\ call[c].pc = "invoked"
    /\ call' = [call EXCEPT ![c].pc = "returned",
                            ![c].out = LlamaResult(call[c].results)]
    /\ UNCHANGED <<variant, guest_dataset, docs, pc, is_initialized, retriever>>

\* The agent takes the tool's string; the caller is free to call again.
Consume(c) ==
    /\ call[c].pc = "returned"
    /\ call' = [call EXCEPT ![c] = Idle]
    /\ UNCHANGED <<variant, guest_dataset, docs, pc, is_initialized, retriever>>

Next ==
    \/ SmolBuildDocs
    \/ LlamaBuildDocs
    \/ SmolToolInit
    \/ LlamaFromDefaults
    \/ \E c \in Callers : ForwardInvoke(c)
    \/ \E c \in Callers : ForwardReturn(c)
    \/ \E c \in Callers : LlamaRetrieve(c)
    \/ \E c \in Callers : LlamaReturn(c)
    \/ \E c \in Callers : Consume(c)

Spec == Init /\ [][Next]_vars

----------------------------------------------------------------------------
(* forward over an arbitrary retriever: self.retriever.invoke(query) may   *)
(* return any list of at most k documents of the corpus, the empty list    *)
(* included.  One caller suffices: forward reads nothing but its results.  *)

OneCaller == {"c1"}

AnyResults == BoundedSeq({ docs[i] : i \in 1..Len(docs) }, BM25_K)

InitSmol == Init /\ variant = "smolagents"

\* forward: results = self.retriever.invoke(query), the retriever unconstrained
ForwardInvokeAny(c) ==
    /\ pc = "run"
    /\ variant = "smolagents"
    /\ call[c].pc = "idle"
    /\ \E query \in Queries, results \in AnyResults :
         call' = [call EXCEPT ![c] =
                    [pc |-> "invoked", query |-> query,
                     results |-> results, out |-> <<>>]]
    /\ UNCHANGED <<variant, guest_dataset, docs, pc, is_initialized, retriever>>

NextAnyRetriever ==
    \/ SmolBuildDocs
    \/ SmolToolInit
    \/ \E c \in OneCaller : ForwardInvokeAny(c)
    \/ \E c \in OneCaller : ForwardReturn(c)
    \/ \E c \in OneCaller : Consume(c)

SpecAnyRetriever == InitSmol /\ [][NextAnyRetriever]_vars

----------------------------------------------------------------------------
(* Vocabulary of the properties *)

\* The text of a document, whichever variant built it
DocText(d) == IF variant = "smolagents" THEN d.page_content ELSE d.text

Returned(c) == call[c].pc = "returned"

\* The four labelled fields, consecutive ones separated by one newline
FourLines(guest) ==
    <<"Name:", SP>> \o guest.name \o <<NL>> \o
    <<"Relation:", SP>> \o guest.relation \o <<NL>> \o
    <<"Description:", SP>> \o guest.description \o <<NL>> \o
    <<"Email:", SP>> \o guest.email

\* Term t occurs in text
Occurs(t, text) == \E j \in 1..Len(text) : text[j] = t

\* The documents of the corpus that contain some term of the query
Matching(query) ==
    { i \in 1..Len(docs) :
        \E p \in 1..Len(query) :
            IsWord(query[p]) /\ Occurs(query[p], DocText(docs[i])) }

\* The relevance score of document i of the corpus for the query
Relevance(query, i) == Score(Split(query), Split(DocText(docs[i])))

\* The number of document texts in a "\n\n"-joined output (no field holds a newline)
NumTexts(out) ==
    1 + Cardinality({ j \in 1..(Len(out) - 1) : out[j] = NL /\ out[j + 1] = NL })

\* Sequences of n distinct corpus positions
Picks(n) ==
    { ix \in [1..n -> 1..Len(docs)] :
        \A a, b \in 1..n : a # b => ix[a] # ix[b] }

JoinTexts(ix) == Join(<<NL, NL>>, [p \in 1..Len(ix) |-> DocText(docs[ix[p]])])

\* ix runs by descending score, equal scores in corpus order
RankedStable(query, ix) ==
    \A a, b \in 1..Len(ix) :
        a < b => \/ Relevance(query, ix[a]) > Relevance(query, ix[b])
                 \/ /\ Relevance(query, ix[a]) = Relevance(query, ix[b])
                    /\ ix[a] < ix[b]

\* ix runs by descending score and no document left out scores more than its last
RankedTop(query, ix) ==
    /\ \A a, b \in 1..Len(ix) :
           a < b => Relevance(query, ix[a]) >= Relevance(query, ix[b])
    /\ \A i \in 1..Len(docs) :
           (\A a \in 1..Len(ix) : ix[a] # i)
               => Relevance(query, i) <= Relevance(query, ix[Len(ix)])

----------------------------------------------------------------------------
(* Properties *)

\* C1: corpus construction yields exactly one document per record, in input
\* order: the corpus is as long as the record sequence and the metadata name of
\* document i is the name of record i.
C1_OneDocumentPerRecord ==
    pc # "docs" =>
        /\ Len(docs) = Len(guest_dataset)
        /\ \A i \in 1..Len(guest_dataset) :
               docs[i].metadata.name = guest_dataset[i].name

C1_Witness ==
    /\ pc # "docs"
    /\ Len(docs) = 3
    /\ docs[1].metadata.name # docs[2].metadata.name
    /\ docs[2].metadata.name # docs[3].metadata.name

\* C2: in every variant, the text of each record's document is "Name: ...",
\* "Relation: ...", "Description: ...", "Email: ..." in that order, consecutive
\* strings separated by exactly one newline.
C2_FourLinesEveryVariant ==
    pc # "docs" =>
        \A i \in 1..Len(docs) : DocText(docs[i]) = FourLines(guest_dataset[i])

\* C3: when no document of the corpus contains any term of the query, retrieve
\* returns exactly the sentinel string and no document text.
C3_NoMatchGivesSentinel ==
    \A c \in Callers :
        (Returned(c) /\ Matching(call[c].query) = {}) => call[c].out = Sentinel

\* C4: without an explicit top_k the returned text holds at most 3 document
\* texts, and when more than 3 documents match the query it holds exactly 3,
\* joined by "\n\n", in descending order of relevance score.
C4_DefaultCapOfThree ==
    \A c \in Callers :
        Returned(c) =>
            /\ call[c].out # Sentinel => NumTexts(call[c].out) <= 3
            /\ Cardinality(Matching(call[c].query)) > 3 =>
                   \E ix \in Picks(3) :
                       /\ call[c].out = JoinTexts(ix)
                       /\ RankedTop(call[c].query, ix)

\* C5: a retrieve call made while the tool is not initialized fails with
\* NotInitializedError and returns no result; retrieve returns a result only on
\* a tool that is Ready.
C5_ResultOnlyWhenReady ==
    \A c \in Callers :
        (variant = "smolagents" /\ Returned(c)) =>
            \/ is_initialized = <<TRUE>>
            \/ call[c].out = <<"NotInitializedError">>

\* C6: after construction no retrieve call changes the retrieval index or the
\* corpus, under any interleaving of the callers' retrieve calls.
C6_IndexReadOnly ==
    [][retriever # <<>> => (retriever' = retriever /\ docs' = docs)]_vars

C6_Witness ==
    /\ retriever # <<>>
    /\ \E c, d \in Callers :
           /\ call[c].pc = "invoked"
           /\ Returned(d)
           /\ call[d].results # <<>>

\* C7: on a tool that is running, two retrieve calls with the same query return
\* identical output, the documents in the same order, whatever calls came
\* between them.
C7_SameQuerySameOutput ==
    \A c, d \in Callers :
        (Returned(c) /\ Returned(d) /\ call[c].query = call[d].query)
            => (call[c].out = call[d].out /\ call[c].results = call[d].results)

C7_Witness ==
    \E c, d \in Callers :
        /\ c # d
        /\ Returned(c) /\ Returned(d)
        /\ call[c].query = call[d].query
        /\ call[c].out # Sentinel
        /\ NumTexts(call[c].out) >= 2

\* C8: an empty record sequence yields an empty corpus, constructing the tool
\* over it succeeds and leaves the tool ready, and every later retrieve call
\* returns the sentinel string.
C8_EmptyCorpusIsValid ==
    guest_dataset = <<>> =>
        /\ pc # "docs" => docs = <<>>
        /\ pc # "raised"
        /\ \A c \in Callers : Returned(c) => call[c].out = Sentinel

\* C9: the document texts of the output appear in descending order of relevance
\* score, and documents with equal score appear in corpus insertion order.
C9_DescendingStableTies ==
    \A c \in Callers :
        (Returned(c) /\ call[c].out # Sentinel) =>
            \E n \in 1..Len(docs) :
                \E ix \in Picks(n) :
                    /\ call[c].out = JoinTexts(ix)
                    /\ RankedStable(call[c].query, ix)

\* C10: in the smolagents variant forward returns the sentinel exactly when the
\* retriever returned no result; otherwise its output is the "\n\n"-join of the
\* page_content of the first min(3, n) of the n results, in the retriever's
\* order, and is neither the empty string nor the sentinel.
C10_ForwardFollowsResults ==
    \A c \in Callers :
        (variant = "smolagents" /\ Returned(c)) =>
            LET results == call[c].results
                n == Len(results)
                m == IF n < 3 THEN n ELSE 3
            IN  /\ call[c].out = Sentinel <=> results = <<>>
                /\ results # <<>> =>
                       /\ call[c].out =
                              Join(<<NL, NL>>,
                                   [i \in 1..m |-> results[i].page_content])
                       /\ call[c].out # <<>>
                       /\ call[c].out # Sentinel

C10_Witness ==
    \E c \in Callers :
        /\ variant = "smolagents"
        /\ Returned(c)
        /\ Len(call[c].results) = 4
        /\ NumTexts(call[c].out) = 3

=============================================================================
